---- MODULE Spec2Model ----
(***************************************************************************)
(* A model of md-analysis-script-v6.py: the loader read_trajectory, the    *)
(* numeric stages calculate_rmsd and calculate_rdf, the reporters and the  *)
(* top-level pipeline main().                                              *)
(*                                                                         *)
(* Text is a sequence of one-character strings.  Numbers are exact: an     *)
(* integer table cell, a rational n/d, or the principal square root of a   *)
(* non-negative rational (k = "root"), so that comparisons of distances    *)
(* are decided on squares and never on a rounded value.                    *)
(***************************************************************************)
EXTENDS Integers, Sequences, FiniteSets, TLC

VARIABLES
    fileExists,   \* md_trajectory.csv can be opened
    content,      \* the raw text of md_trajectory.csv
    alt,          \* the loader's result on a second text (fence comparison)
    pc,           \* position of main()
    res,          \* result of read_trajectory
    rmsd,         \* result of calculate_rmsd
    bins,         \* bins argument of calculate_rdf
    max_distance, \* max_distance argument of calculate_rdf
    r_rdf,        \* result of calculate_rdf: [r, hist, ok]
    peaks,        \* indices returned by find_peaks
    files,        \* files written to the working directory, in order of creation
    csv,          \* lines of average_structure.csv
    out,          \* console output, in order
    exc,          \* exception propagating to main's handler ("" if none)
    ran           \* stages entered so far, in order

vars == <<fileExists, content, alt, pc, res, rmsd, bins, max_distance, r_rdf,
          peaks, files, csv, out, exc, ran>>

----------------------------------------------------------------------------
(* Bounds of the model *)

MaxRows == 3
MaxCols == 2
MaxPad == 3
MaxBins == 6
MaxDist == 4

(* Program constants *)

DefaultBins == 100
DefaultMaxDistance == 10

----------------------------------------------------------------------------
(* Text helpers: str.strip, str.startswith, str.endswith, slicing, split *)

WS == {" ", "\n"}
DIGITS == <<"0", "1", "2", "3", "4", "5", "6", "7", "8", "9">>
\* The backtick cannot be written inside a TLA+ string: BT stands for it.
BT == "'"
FENCE == <<BT, BT, BT>>
TIME == <<"t", "i", "m", "e">>

RECURSIVE lstrip(_)
lstrip(s) == IF s = <<>> \/ s[1] \notin WS THEN s ELSE lstrip(Tail(s))

RECURSIVE rstrip(_)
rstrip(s) ==
    IF s = <<>> \/ s[Len(s)] \notin WS THEN s ELSE rstrip(SubSeq(s, 1, Len(s) - 1))

strip(s) == rstrip(lstrip(s))

startswith(s, p) == Len(s) >= Len(p) /\ SubSeq(s, 1, Len(p)) = p

endswith(s, p) == Len(s) >= Len(p) /\ SubSeq(s, Len(s) - Len(p) + 1, Len(s)) = p

\* content[3:-3]
slice3(s) == IF Len(s) - 3 < 4 THEN <<>> ELSE SubSeq(s, 4, Len(s) - 3)

find(s, c) ==
    IF \E i \in 1..Len(s) : s[i] = c
    THEN CHOOSE i \in 1..Len(s) : s[i] = c /\ \A j \in 1..(i - 1) : s[j] # c
    ELSE 0

RECURSIVE split(_, _)
split(s, sep) ==
    LET i == find(s, sep)
    IN  IF i = 0 THEN <<s>>
        ELSE <<SubSeq(s, 1, i - 1)>> \o split(SubSeq(s, i + 1, Len(s)), sep)

RECURSIVE digits(_)
digits(n) ==
    IF n < 10 THEN <<DIGITS[n + 1]>> ELSE digits(n \div 10) \o <<DIGITS[(n % 10) + 1]>>

digitval(c) == (CHOOSE i \in 1..10 : DIGITS[i] = c) - 1

RECURSIVE atoi(_)
atoi(s) ==
    IF s = <<>> THEN 0 ELSE 10 * atoi(SubSeq(s, 1, Len(s) - 1)) + digitval(s[Len(s)])

\* the elements of s at the indices in keep, in order
SelectIdx(s, keep) ==
    LET F[i \in 0..Len(s)] ==
            IF i = 0 THEN <<>> ELSE IF i \in keep THEN F[i - 1] \o <<s[i]>> ELSE F[i - 1]
    IN  F[Len(s)]

----------------------------------------------------------------------------
(* pandas.read_csv with its defaults, on the subset of texts over          *)
(* letters, digits, space, comma, newline and the backtick.                *)

NoCell == [k |-> "nan", n |-> 0, s |-> <<>>]
NoTraj == [index |-> <<>>, columns |-> <<>>, data |-> <<>>]

isblank(line) == \A i \in 1..Len(line) : line[i] = " "

isdigits(s) == s # <<>> /\ \A i \in 1..Len(s) : \E d \in 1..10 : DIGITS[d] = s[i]

RECURSIVE trim(_)
trim(s) ==
    IF s # <<>> /\ s[1] = " " THEN trim(Tail(s))
    ELSE IF s # <<>> /\ s[Len(s)] = " " THEN trim(SubSeq(s, 1, Len(s) - 1))
    ELSE s

\* header names: an empty name becomes "Unnamed: i", a repeated name gets ".k"
mangle(hdr) ==
    [j \in 1..Len(hdr) |->
        LET k == Cardinality({i \in 1..(j - 1) : hdr[i] = hdr[j]})
        IN  IF hdr[j] = <<>>
            THEN <<"U", "n", "n", "a", "m", "e", "d", ":", " ">> \o digits(j - 1)
            ELSE IF k = 0 THEN hdr[j] ELSE hdr[j] \o <<".">> \o digits(k)]

pad(row, n) == [j \in 1..n |-> IF j <= Len(row) THEN row[j] ELSE <<>>]

read_csv(text) ==
    LET all    == split(text, "\n")
        lines  == SelectIdx(all, {i \in 1..Len(all) : ~isblank(all[i])})
        hdr    == mangle(split(lines[1], ","))
        n      == Len(hdr)
        raw    == [i \in 1..(Len(lines) - 1) |-> split(lines[i + 1], ",")]
        f1     == IF Len(raw) > 0 /\ Len(raw[1]) > n THEN Len(raw[1]) ELSE n
        extra  == f1 - n
        rows   == [i \in 1..Len(raw) |->
                      [j \in 1..n |-> pad(raw[i], f1)[j + extra]]]
        numcol(j) == \A i \in 1..Len(rows) :
                         rows[i][j] = <<>> \/ isdigits(trim(rows[i][j]))
        cell(i, j) ==
            IF rows[i][j] = <<>> THEN NoCell
            ELSE IF numcol(j)
                 THEN [k |-> "int", n |-> atoi(trim(rows[i][j])), s |-> <<>>]
                 ELSE [k |-> "str", n |-> 0, s |-> rows[i][j]]
    IN  IF lines = <<>>
        THEN [ok |-> FALSE, exc |-> "EmptyDataError", df |-> NoTraj]
        ELSE IF \E i \in 1..Len(raw) : Len(raw[i]) > f1
        THEN [ok |-> FALSE, exc |-> "ParserError", df |-> NoTraj]
        ELSE [ok |-> TRUE, exc |-> "",
              df |-> [index   |-> <<>>,
                      columns |-> hdr,
                      data    |-> [i \in 1..Len(rows) |->
                                     [j \in 1..n |-> cell(i, j)]]]]

set_index_first(df, name) ==
    LET j == IF find(df.columns, name) = 0 THEN 1 ELSE find(df.columns, name)
        keep(row) == SelectIdx(row, (1..Len(row)) \ {j})
    IN  [ok |-> TRUE, exc |-> "",
         df |-> [index   |-> [i \in 1..Len(df.data) |-> df.data[i][j]],
                 columns |-> keep(df.columns),
                 data    |-> [i \in 1..Len(df.data) |-> keep(df.data[i])]]]

\* df.set_index('time', inplace=True)
set_index(df, name) ==
    LET j == find(df.columns, name)
        keep(row) == SelectIdx(row, (1..Len(row)) \ {j})
    IN  IF j = 0
        THEN [ok |-> FALSE, exc |-> "KeyError", df |-> NoTraj]
        ELSE [ok |-> TRUE, exc |-> "",
              df |-> [index   |-> [i \in 1..Len(df.data) |-> df.data[i][j]],
                      columns |-> keep(df.columns),
                      data    |-> [i \in 1..Len(df.data) |-> keep(df.data[i])]]]

\* lines 14-15: one fence is removed, when the text has it on both ends
unfence_either(c) ==
    IF startswith(c, FENCE) \/ endswith(c, FENCE) THEN strip(slice3(c)) ELSE c

unfence(c) ==
    IF startswith(c, FENCE) /\ endswith(c, FENCE) THEN strip(slice3(c)) ELSE c

Summary == <<<<"Successfully read data from", "">>, <<"DataFrame info:", "">>,
             <<"First few rows:", "">>>>

LoaderError(e) == <<"Error in read_trajectory:", e>>

\* lines 33-35: except Exception as e: print(...); raise
failed_silent(e, printed) ==
    [ok |-> FALSE, exc |-> e, traj |-> NoTraj, out |-> printed]

failed(e, printed) ==
    [ok |-> FALSE, exc |-> e, traj |-> NoTraj, out |-> printed \o <<LoaderError(e)>>]

\* lines 18-32: read_csv, the printed summary, set_index
load(text) ==
    LET parsed  == read_csv(text)
        indexed == set_index(parsed.df, TIME)
    IN  IF ~parsed.ok THEN failed(parsed.exc, <<>>)
        ELSE IF ~indexed.ok THEN failed(indexed.exc, Summary)
        ELSE [ok |-> TRUE, exc |-> "", traj |-> indexed.df, out |-> Summary]

read_trajectory(exists, text) ==
    IF ~exists THEN failed("FileNotFoundError", <<>>) ELSE load(unfence(strip(text)))

----------------------------------------------------------------------------
(* Exact numbers: [k, n, d] is n/d (k = "rat"), the principal square root  *)
(* of n/d (k = "root"), +infinity (k = "inf") or NaN (k = "nan").          *)

NaN == [k |-> "nan", n |-> 0, d |-> 1]
Inf == [k |-> "inf", n |-> 0, d |-> 1]

abs(x) == IF x < 0 THEN -x ELSE x

RECURSIVE gcd(_, _)
gcd(a, b) == IF b = 0 THEN a ELSE gcd(b, a % b)

\* n/d in lowest terms, d > 0
Rat(n, d) ==
    LET g == gcd(abs(n), abs(d))
        sg == IF d < 0 THEN -1 ELSE 1
    IN  [k |-> "rat", n |-> sg * (n \div g), d |-> sg * (d \div g)]

\* float division: x/0 is inf or nan, never an exception
div(n, d) == IF d # 0 THEN Rat(n, d) ELSE IF n = 0 THEN NaN ELSE Inf

add(a, b) == Rat(a.n * b.d + b.n * a.d, a.d * b.d)

sub(a, b) == Rat(a.n * b.d - b.n * a.d, a.d * b.d)

sq(a) == Rat(a.n * a.n, a.d * a.d)

less(a, b) == a.n * b.d < b.n * a.d

np_sqrt(q) ==
    IF q.k = "nan" \/ (q.k = "rat" /\ q.n < 0) THEN NaN
    ELSE IF q.k = "inf" THEN Inf
    ELSE [k |-> "root", n |-> q.n, d |-> q.d]

\* sum(axis=...) with skipna: a NaN term counts as 0
nansum(terms) ==
    LET F[i \in 0..Len(terms)] ==
            IF i = 0 THEN Rat(0, 1)
            ELSE IF terms[i].k = "nan" THEN F[i - 1] ELSE add(F[i - 1], terms[i])
    IN  F[Len(terms)]

\* a table cell as a number
num(c) == IF c.k = "int" THEN Rat(c.n, 1) ELSE NaN

diff(a, b) == IF a.k = "nan" \/ b.k = "nan" THEN NaN ELSE sub(a, b)

square(a) == IF a.k = "nan" THEN NaN ELSE sq(a)

nrows(traj) == Len(traj.data)
ncols(traj) == Len(traj.columns)

hasstr(traj) ==
    \E i \in 1..nrows(traj) : \E j \in 1..ncols(traj) : traj.data[i][j].k = "str"

----------------------------------------------------------------------------
(* calculate_rmsd *)

deviation_noref(traj, i, j) == square(num(traj.data[i][j]))

deviation_nosquare(traj, i, j) == diff(num(traj.data[i][j]), num(traj.data[1][j]))

\* (traj - ref_structure) ** 2, at row i and column j
deviation(traj, i, j) == square(diff(num(traj.data[i][j]), num(traj.data[1][j])))

calculate_rmsd(traj) ==
    LET sumsq(i) == nansum([j \in 1..ncols(traj) |-> deviation(traj, i, j)])
    IN  IF nrows(traj) = 0
        THEN [ok |-> FALSE, exc |-> "IndexError", index |-> <<>>, values |-> <<>>]
        ELSE IF hasstr(traj)
        THEN [ok |-> FALSE, exc |-> "TypeError", index |-> <<>>, values |-> <<>>]
        ELSE [ok |-> TRUE, exc |-> "", index |-> traj.index,
              values |-> [i \in 1..nrows(traj) |->
                            np_sqrt(div(sumsq(i).n, sumsq(i).d * ncols(traj)))]]

----------------------------------------------------------------------------
(* traj.mean(): the column means, NaN cells skipped *)

mean_first(traj) == [j \in 1..ncols(traj) |-> num(traj.data[1][j])]

mean(traj) ==
    [j \in 1..ncols(traj) |->
        LET present == {i \in 1..nrows(traj) : traj.data[i][j].k = "int"}
            total == nansum([i \in 1..nrows(traj) |-> num(traj.data[i][j])])
        IN  div(total.n, total.d * Cardinality(present))]

----------------------------------------------------------------------------
(* calculate_rdf *)

\* np.histogram(distances, bins, range=(0, max_distance)) on squared distances
bin_edge(i, nbins, maxd) == Rat(i * maxd, nbins)

inrange(dsq, maxd) == ~less(dsq, Rat(0, 1)) /\ ~less(Rat(maxd * maxd, 1), dsq)

\* edge i of linspace(0, maxd, nbins + 1) is at or below the distance
reached(dsq, i, nbins, maxd) == i * i * maxd * maxd * dsq.d <= dsq.n * nbins * nbins

bin_index_open(dsq, nbins, maxd) ==
    Cardinality({i \in 1..nbins : reached(dsq, i, nbins, maxd)})

\* floor(distance * nbins / maxd); the right edge falls in the last bin
bin_index(dsq, nbins, maxd) ==
    LET f == Cardinality({i \in 1..nbins : reached(dsq, i, nbins, maxd)})
    IN  IF f = nbins THEN nbins - 1 ELSE f

histogram(dsqs, nbins, maxd) ==
    LET kept == {i \in 1..Len(dsqs) : inrange(dsqs[i], maxd)}
        idx == [i \in kept |-> bin_index(dsqs[i], nbins, maxd)]
    IN  [b \in 1..nbins |-> Cardinality({i \in kept : idx[i] = b - 1})]

bin_center_left(b, nbins, maxd) == bin_edge(b - 1, nbins, maxd)

\* (bin_edges[:-1] + bin_edges[1:]) / 2, at bin b (1-based)
bin_center(b, nbins, maxd) ==
    LET e == add(bin_edge(b - 1, nbins, maxd), bin_edge(b, nbins, maxd))
    IN  Rat(e.n, e.d * 2)

calculate_rdf(traj, nbins, maxd) ==
    LET avg == mean(traj)
        dsqs == [i \in 1..nrows(traj) |->
                    nansum([j \in 1..ncols(traj) |->
                        square(diff(num(traj.data[i][j]), avg[j]))])]
        hist == histogram(dsqs, nbins, maxd)
        bin_centers == [b \in 1..nbins |-> bin_center(b, nbins, maxd)]
        \* hist / (4 * pi * r^2), kept as the rational factor of 1/pi
        rdf == [b \in 1..nbins |->
                   div(hist[b] * sq(bin_centers[b]).d, 4 * sq(bin_centers[b]).n)]
    \* (bin_centers, rdf) is returned; hist and the squared distances are its locals
    IN  [r |-> bin_centers, rdf |-> rdf, hist |-> hist, dsq |-> dsqs]

----------------------------------------------------------------------------
(* scipy.signal.find_peaks(rdf, height=0.1): the middle of every plateau    *)
(* that is higher than both neighbours, the two end samples excluded, kept *)
(* when its height is at least 0.1.  Indices are 0-based.  x holds the      *)
(* rational factor of 1/pi, and pi is taken as 355/113.                     *)

tall(g) == g.k = "inf" \/ (g.k = "rat" /\ 10 * g.n * 113 >= 355 * g.d)

find_peaks(x) ==
    LET n == Len(x)
        at(i) == x[i + 1]
        flat(a, b) == \A i \in a..b : at(i) = at(a)
        plateau(a, b) ==
            /\ less(at(a - 1), at(a))
            /\ flat(a, b)
            /\ less(at(b + 1), at(a))
    IN  {m \in 1..(n - 2) :
            /\ tall(at(m))
            /\ \E a \in 1..m : \E b \in m..(n - 2) :
                   m = (a + b) \div 2 /\ plateau(a, b)}

----------------------------------------------------------------------------
(* avg_structure.to_csv("average_structure.csv"): a Series is written as    *)
(* the header line ",0" and one line "name,value" per entry; a value is     *)
(* written with repr, which reads back as the same number.                  *)

to_csv(columns, series) ==
    [header |-> <<<<>>, <<"0">>>>,
     rows   |-> [j \in 1..Len(columns) |-> [label |-> columns[j], value |-> series[j]]]]

NoCsv == [header |-> <<>>, rows |-> <<>>]

----------------------------------------------------------------------------
(* Input tables and the text of their files *)

COLS == <<<<"x">>, <<"y">>, <<"z">>, <<"w">>>>
Vals == {0, 20}
RdfVals == {0, 8, 20}

IntCell(v) == [k |-> "int", n |-> v, s |-> <<>>]

mk(nr, nc, m) ==
    [index   |-> [i \in 1..nr |-> IntCell(i - 1)],
     columns |-> [j \in 1..nc |-> COLS[j]],
     data    |-> [i \in 1..nr |-> [j \in 1..nc |-> IntCell(m[i][j])]]]

Tables(R, C, V) ==
    UNION {UNION {{mk(nr, nc, m) : m \in [1..nr -> [1..nc -> V]]} : nc \in 0..C}
           : nr \in 0..R}

RECURSIVE join(_, _)
join(parts, sep) ==
    IF Len(parts) = 0 THEN <<>>
    ELSE IF Len(parts) = 1 THEN parts[1]
    ELSE parts[1] \o <<sep>> \o join(Tail(parts), sep)

render(traj, tcol, fenced) ==
    LET hdr == join(<<tcol>> \o traj.columns, ",")
        row(i) == join(<<digits(traj.index[i].n)>>
                       \o [j \in 1..ncols(traj) |-> digits(traj.data[i][j].n)], ",")
        text == join(<<hdr>> \o [i \in 1..nrows(traj) |-> row(i)], "\n") \o <<"\n">>
    IN  IF fenced THEN FENCE \o <<"\n">> \o text \o FENCE \o <<"\n">> ELSE text

\* texts that are not a rendered table: empty, a bare fence, a text cell,
\* a row longer than the first one
OddTexts ==
    { <<>>,
      FENCE \o <<"\n">> \o FENCE,
      <<"t", "i", "m", "e", ",", "x", "\n", "0", ",", "a", "\n">>,
      <<"t", "i", "m", "e", ",", "x", "\n", "0", ",", "1", "\n", "1", ",", "2", ",", "3">> }

\* one table with a row inside the range, one on its edge and one beyond it
Sample == mk(3, 1, <<<<0>>, <<4>>, <<26>>>>)

Inputs ==
    {render(t, TIME, FALSE) : t \in Tables(MaxRows, MaxCols, Vals)}
    \cup {render(Sample, TIME, f) : f \in BOOLEAN}
    \cup {render(t, tc, f) : t \in Tables(1, 1, Vals), tc \in {TIME, <<"t">>},
                             f \in BOOLEAN}
    \cup OddTexts

----------------------------------------------------------------------------
(* main() *)

NoRes == [ok |-> FALSE, exc |-> "", traj |-> NoTraj, out |-> <<>>]
NoRmsd == [ok |-> FALSE, exc |-> "", index |-> <<>>, values |-> <<>>]
NoRdf == [r |-> <<>>, rdf |-> <<>>, hist |-> <<>>, dsq |-> <<>>]

RMSD_PNG == "rmsd_plot.png"
RDF_PNG == "rdf_plot.png"
AVG_CSV == "average_structure.csv"

Say(msg) == <<msg, "">>
SUCCESS == Say("Analysis completed successfully. Check the current directory for output files.")
MainError(e) == <<"An error occurred in main:", e>>
HINT == Say("Please check your input file structure and ensure it contains the necessary data.")

Idle ==
    /\ alt = NoRes
    /\ res = NoRes
    /\ rmsd = NoRmsd
    /\ r_rdf = NoRdf
    /\ peaks = {}
    /\ files = <<>>
    /\ csv = NoCsv
    /\ out = <<>>
    /\ exc = ""
    /\ ran = <<>>

Init ==
    /\ fileExists \in BOOLEAN
    /\ content \in (IF fileExists THEN Inputs ELSE {<<>>})
    /\ bins = DefaultBins
    /\ max_distance = DefaultMaxDistance
    /\ pc = "load"
    /\ Idle

\* an exception leaves the try block for main's handler
raise(e) == exc' = e /\ pc' = "except"

\* line 71: traj = read_trajectory()
Load ==
    /\ pc = "load"
    /\ res' = read_trajectory(fileExists, content)
    /\ out' = out \o res'.out
    /\ ran' = Append(ran, "load")
    /\ IF res'.ok THEN pc' = "rmsd" /\ exc' = exc ELSE raise(res'.exc)
    /\ UNCHANGED <<fileExists, content, alt, rmsd, bins, max_distance, r_rdf, peaks,
                   files, csv>>

\* line 73: rmsd = calculate_rmsd(traj)
Rmsd ==
    /\ pc = "rmsd"
    /\ rmsd' = calculate_rmsd(res.traj)
    /\ ran' = Append(ran, "rmsd")
    /\ IF rmsd'.ok THEN pc' = "plot_rmsd" /\ exc' = exc ELSE raise(rmsd'.exc)
    /\ UNCHANGED <<fileExists, content, alt, res, bins, max_distance, r_rdf, peaks,
                   files, csv, out>>

\* a reporter: savefig or to_csv writes the file, or the write fails
plot_rmsd(written) ==
    IF written
    THEN /\ files' = Append(files, RMSD_PNG)
         /\ out' = Append(out, Say("RMSD plot saved as rmsd_plot.png"))
         /\ pc' = "rdf" /\ exc' = exc
    ELSE /\ raise("OSError")
         /\ UNCHANGED <<files, out>>

\* line 74: plot_rmsd(traj.index, rmsd)
PlotRmsd ==
    /\ pc = "plot_rmsd"
    /\ ran' = Append(ran, "plot_rmsd")
    /\ \E written \in BOOLEAN : plot_rmsd(written)
    /\ UNCHANGED <<fileExists, content, alt, res, rmsd, bins, max_distance, r_rdf,
                   peaks, csv>>

\* line 76: r, rdf = calculate_rdf(traj)
Rdf ==
    /\ pc = "rdf"
    /\ r_rdf' = calculate_rdf(res.traj, bins, max_distance)
    /\ ran' = Append(ran, "rdf")
    /\ pc' = "plot_rdf"
    /\ UNCHANGED <<fileExists, content, alt, res, rmsd, bins, max_distance, peaks,
                   files, csv, out, exc>>

plot_rdf(written) ==
    IF written
    THEN /\ files' = Append(files, RDF_PNG)
         /\ out' = Append(out, Say("RDF plot saved as rdf_plot.png"))
         /\ pc' = "peaks" /\ exc' = exc
    ELSE /\ raise("OSError")
         /\ UNCHANGED <<files, out>>

\* line 77: plot_rdf(r, rdf)
PlotRdf ==
    /\ pc = "plot_rdf"
    /\ ran' = Append(ran, "plot_rdf")
    /\ \E written \in BOOLEAN : plot_rdf(written)
    /\ UNCHANGED <<fileExists, content, alt, res, rmsd, bins, max_distance, r_rdf,
                   peaks, csv>>

\* lines 80-82: peaks, _ = find_peaks(rdf, height=0.1); print(r[peaks])
Peaks ==
    /\ pc = "peaks"
    /\ peaks' = find_peaks(r_rdf.rdf)
    /\ out' = Append(out, Say("RDF peak positions:"))
    /\ ran' = Append(ran, "peaks")
    /\ pc' = "average"
    /\ UNCHANGED <<fileExists, content, alt, res, rmsd, bins, max_distance, r_rdf,
                   files, csv, exc>>

export_early(written) ==
    IF written
    THEN /\ csv' = to_csv(res.traj.columns, mean(res.traj))
         /\ files' = Append(files, AVG_CSV)
         /\ out' = out \o <<SUCCESS,
                            Say("Average structure saved as average_structure.csv")>>
         /\ pc' = "done" /\ exc' = exc
    ELSE /\ raise("OSError")
         /\ out' = Append(out, SUCCESS)
         /\ UNCHANGED <<files, csv>>

export(written) ==
    IF written
    THEN /\ csv' = to_csv(res.traj.columns, mean(res.traj))
         /\ files' = Append(files, AVG_CSV)
         /\ out' = out \o <<Say("Average structure saved as average_structure.csv"),
                            SUCCESS>>
         /\ pc' = "done" /\ exc' = exc
    ELSE /\ raise("OSError")
         /\ UNCHANGED <<files, csv, out>>

\* lines 85-89: the average structure, its export and the closing message
Average ==
    /\ pc = "average"
    /\ ran' = Append(ran, "average")
    /\ \E written \in BOOLEAN : export(written)
    /\ UNCHANGED <<fileExists, content, alt, res, rmsd, bins, max_distance, r_rdf,
                   peaks>>

Except_rollback ==
    /\ pc = "except"
    /\ out' = out \o <<MainError(exc), HINT>>
    /\ files' = <<>>
    /\ pc' = "done"
    /\ UNCHANGED <<fileExists, content, alt, res, rmsd, bins, max_distance, r_rdf,
                   peaks, csv, exc, ran>>

\* lines 91-93: except Exception as e
Except ==
    /\ pc = "except"
    /\ out' = out \o <<MainError(exc), HINT>>
    /\ pc' = "done"
    /\ UNCHANGED <<fileExists, content, alt, res, rmsd, bins, max_distance, r_rdf,
                   peaks, files, csv, exc, ran>>

Next == Load \/ Rmsd \/ PlotRmsd \/ Rdf \/ PlotRdf \/ Peaks \/ Average \/ Except

Spec == Init /\ [][Next]_vars

----------------------------------------------------------------------------
(* read_trajectory on a text and on the same text inside a fence *)

Pads ==
    UNION {[1..n -> {BT, " ", "\n"}] : n \in 0..MaxPad}

Bodies ==
    { <<>>,
      <<"x">>,
      <<"t", "i", "m", "e">>,
      <<"t", "i", "m", "e", ",", "x", "\n", "0", ",", "8">>,
      <<"t", ",", "x", "\n", "0", ",", "8">> }

FenceTexts == {pre \o body \o post : pre \in Pads, body \in Bodies, post \in Pads}

InitFence ==
    /\ fileExists = TRUE
    /\ content \in FenceTexts
    /\ bins = DefaultBins
    /\ max_distance = DefaultMaxDistance
    /\ pc = "plain"
    /\ Idle

ReadPlain ==
    /\ pc = "plain"
    /\ res' = read_trajectory(fileExists, content)
    /\ pc' = "fenced"
    /\ UNCHANGED <<fileExists, content, alt, rmsd, bins, max_distance, r_rdf, peaks,
                   files, csv, out, exc, ran>>

ReadFenced ==
    /\ pc = "fenced"
    /\ alt' = read_trajectory(fileExists, FENCE \o content \o FENCE)
    /\ pc' = "compared"
    /\ UNCHANGED <<fileExists, content, res, rmsd, bins, max_distance, r_rdf, peaks,
                   files, csv, out, exc, ran>>

NextFence == ReadPlain \/ ReadFenced

SpecFence == InitFence /\ [][NextFence]_vars

----------------------------------------------------------------------------
(* calculate_rdf on a table, for every bin count and range *)

Params == ((1..MaxBins) \X (1..MaxDist)) \cup {<<DefaultBins, DefaultMaxDistance>>}

InitRdf ==
    /\ fileExists = TRUE
    /\ content = <<>>
    /\ \E q \in Params : bins = q[1] /\ max_distance = q[2]
    /\ pc = "call"
    /\ alt = NoRes
    /\ \E t \in Tables(MaxRows, 1, RdfVals) :
           res = [ok |-> TRUE, exc |-> "", traj |-> t, out |-> <<>>]
    /\ rmsd = NoRmsd
    /\ r_rdf = NoRdf
    /\ peaks = {}
    /\ files = <<>>
    /\ csv = NoCsv
    /\ out = <<>>
    /\ exc = ""
    /\ ran = <<>>

CallRdf ==
    /\ pc = "call"
    /\ r_rdf' = calculate_rdf(res.traj, bins, max_distance)
    /\ pc' = "returned"
    /\ UNCHANGED <<fileExists, content, alt, res, rmsd, bins, max_distance, peaks,
                   files, csv, out, exc, ran>>

NextRdf == CallRdf

SpecRdf == InitRdf /\ [][NextRdf]_vars

----------------------------------------------------------------------------
(* Vocabulary of the properties *)

ORDER == <<"load", "rmsd", "plot_rmsd", "rdf", "plot_rdf", "peaks", "average">>
OUTPUTS == <<RMSD_PNG, RDF_PNG, AVG_CSV>>

IsPrefix(a, b) == Len(a) <= Len(b) /\ SubSeq(b, 1, Len(a)) = a

Count(seq, x) == Cardinality({i \in 1..Len(seq) : seq[i] = x})

Said(x) == Count(out, x) > 0

SumInts(f) ==
    LET F[i \in 0..Len(f)] == IF i = 0 THEN 0 ELSE F[i - 1] + f[i]
    IN  F[Len(f)]

\* the number of output files the first m stages of ORDER write
Written(m) == Cardinality({k \in 1..m : ORDER[k] \in {"plot_rmsd", "plot_rdf", "average"}})

Failed == exc # ""

Traj == res.traj
N == nrows(Traj)
K == ncols(Traj)
val(i, j) == Traj.data[i][j].n
ColSum(j) == SumInts([i \in 1..N |-> val(i, j)])

\* the header of the parsed file holds no column named time
NoTimeColumn ==
    /\ fileExists
    /\ read_csv(unfence(strip(content))).ok
    /\ find(read_csv(unfence(strip(content))).df.columns, TIME) = 0

----------------------------------------------------------------------------
\* C1: when the table of the input file has no time column, read_trajectory
\* fails with KeyError, prints its error message after the summary and
\* re-raises, main's handler takes over, and no output file is ever created.
C1_NoTimeNoOutputs ==
    NoTimeColumn =>
        /\ files = <<>>
        /\ pc \in {"load", "except", "done"}
        /\ pc # "load" =>
              /\ ~res.ok /\ res.exc = "KeyError" /\ exc = "KeyError"
              /\ out[Len(Summary) + 1] = LoaderError("KeyError")
              /\ ran = <<"load">>
        /\ pc = "done" => Said(MainError("KeyError"))

C1_Witness == NoTimeColumn /\ pc = "done" /\ Len(read_csv(unfence(strip(content))).df.data) > 0

----------------------------------------------------------------------------
Same(a, b) == a.ok = b.ok /\ a.exc = b.exc /\ a.traj = b.traj

Wrapped(c) == startswith(c, FENCE) /\ endswith(c, FENCE)

\* C2 as stated: for every text, the text inside a fence loads exactly as the
\* text itself.
C2_FenceAnyText == pc = "compared" => Same(res, alt)

\* C2, amended: for every text that (once its surrounding whitespace is
\* removed) does not itself begin and end with the fence, the text inside a
\* fence loads exactly as the text itself, and the text itself is parsed
\* whole, with any fence it has on one end only left in place.
C2_FenceUnwrappedText ==
    (pc = "compared" /\ ~Wrapped(strip(content))) =>
        /\ Same(res, alt)
        /\ Same(res, load(strip(content)))

C2_Witness ==
    /\ pc = "compared"
    /\ ~Wrapped(strip(content))
    /\ content # strip(content)
    /\ alt.ok /\ nrows(alt.traj) = 1 /\ ncols(alt.traj) = 1

----------------------------------------------------------------------------
AllRowsEqualFirst == \A i \in 1..N : Traj.data[i] = Traj.data[1]

RmsdDone == rmsd.ok

ExactlyZero(v) == v.k = "root" /\ v.n = 0

ZeroSeries ==
    /\ Len(rmsd.values) = N
    /\ rmsd.index = Traj.index
    /\ \A i \in 1..N : ExactlyZero(rmsd.values[i])

\* C3 as stated: for a table of N >= 1 rows that all equal the first row,
\* calculate_rmsd returns N values on the same time index, each exactly 0.
C3_DegenerateZero == (RmsdDone /\ N >= 1 /\ AllRowsEqualFirst) => ZeroSeries

\* C3, amended: the same, for a table with at least one feature column.
C3_DegenerateZeroWithColumns ==
    (RmsdDone /\ N >= 1 /\ K >= 1 /\ AllRowsEqualFirst) => ZeroSeries

C3_Witness ==
    /\ RmsdDone /\ N = MaxRows /\ K = MaxCols /\ AllRowsEqualFirst
    /\ \E j \in 1..K : val(1, j) # 0

----------------------------------------------------------------------------
SqDiff(i) == SumInts([j \in 1..K |-> (val(i, j) - val(1, j)) * (val(i, j) - val(1, j))])

\* v is the non-negative root of SqDiff(i) / K
IsRmsdOfRow(v, i) == v.k = "root" /\ v.n >= 0 /\ v.d > 0 /\ v.n * K = SqDiff(i) * v.d

----------------------------------------------------------------------------
RdfDone == Len(r_rdf.hist) > 0

\* N^2 times the squared distance of row i from the column means
SqDist(i) ==
    SumInts([j \in 1..K |-> (N * val(i, j) - ColSum(j)) * (N * val(i, j) - ColSum(j))])

Within(i) == SqDist(i) <= max_distance * max_distance * N * N
AtEdge(i) == SqDist(i) = max_distance * max_distance * N * N

\* C5: the histogram counts of calculate_rdf add up to the number of rows
\* whose distance from the column means is in [0, max_distance]; a row at
\* exactly max_distance is counted (in the last bin), a row beyond it is in
\* no bin, and nothing is raised.
C5_HistogramTotal ==
    RdfDone =>
        /\ Len(r_rdf.hist) = bins
        /\ SumInts(r_rdf.hist) = Cardinality({i \in 1..N : Within(i)})
        /\ r_rdf.hist[bins] >= Cardinality({i \in 1..N : AtEdge(i)})
        /\ pc = "plot_rdf" => ~Failed

C5_Witness ==
    /\ RdfDone
    /\ \E i \in 1..N : AtEdge(i)
    /\ \E i \in 1..N : ~Within(i)
    /\ \E i \in 1..N : Within(i) /\ ~AtEdge(i)

----------------------------------------------------------------------------
\* C6: for bins >= 1 and max_distance > 0 the bin centers of calculate_rdf
\* are exactly bins values, strictly increasing, the i-th (0-based) being
\* (2i+1)*max_distance/(2*bins), none of them zero, and every density value
\* is a finite number (no division by zero).
C6_BinCenters ==
    pc = "returned" =>
        /\ Len(r_rdf.r) = bins
        /\ Len(r_rdf.rdf) = bins
        /\ \A b \in 1..bins :
              /\ r_rdf.r[b].k = "rat"
              /\ r_rdf.r[b].n * 2 * bins = (2 * (b - 1) + 1) * max_distance * r_rdf.r[b].d
              /\ r_rdf.r[b].n > 0
              /\ r_rdf.rdf[b].k = "rat"
        /\ \A b \in 1..(bins - 1) : less(r_rdf.r[b], r_rdf.r[b + 1])

C6_Witness ==
    /\ pc = "returned" /\ bins = MaxBins /\ max_distance = MaxDist
    /\ \E b \in 1..bins : r_rdf.hist[b] > 0

----------------------------------------------------------------------------
Exported == Count(files, AVG_CSV) > 0

----------------------------------------------------------------------------
\* C8: a failure is reported by main's handler exactly once; a failure of
\* read_trajectory is reported by the loader first and then by main, a
\* failure of a later stage by main alone; no stage runs twice and none runs
\* after the failing one.
C8_ReportedOnce ==
    /\ IsPrefix(ran, ORDER)
    /\ Failed => pc \in {"except", "done"}
    /\ (Failed /\ pc = "except") => Count(out, MainError(exc)) = 0
    /\ (Failed /\ pc = "done") =>
          /\ Count(out, MainError(exc)) = 1
          /\ out[Len(out) - 1] = MainError(exc)
          /\ Len(files) = Written(Len(ran) - 1)
          /\ IF Len(ran) = 1
             THEN /\ Count(out, LoaderError(exc)) = 1
                  /\ out[Len(out) - 2] = LoaderError(exc)
             ELSE \A i \in 1..Len(out) : out[i][1] # LoaderError(exc)[1]
    /\ ~Failed => \A i \in 1..Len(out) :
                      out[i][1] # MainError(exc)[1] /\ out[i][1] # LoaderError(exc)[1]

C8_Witness == Failed /\ pc = "done" /\ Len(ran) = 1 /\ Len(out) = Len(Summary) + 3

----------------------------------------------------------------------------
\* C9: the stages run in the order load, RMSD, RMSD plot, RDF, RDF plot, peak
\* finding, average export, one at a time; the files written so far are
\* always a prefix of rmsd_plot.png, rdf_plot.png, average_structure.csv; a
\* written file is never removed, so after a failure exactly the files
\* written before it remain.
C9_OrderedOutputs ==
    /\ [](/\ IsPrefix(ran, ORDER)
          /\ IsPrefix(files, OUTPUTS)
          /\ Len(files) = Written(Len(ran) - (IF Failed THEN 1 ELSE 0)))
    /\ [][/\ IsPrefix(files, files')
          /\ IsPrefix(ran, ran') /\ Len(ran') <= Len(ran) + 1]_vars

C9_Witness == Failed /\ pc = "done" /\ files = <<RMSD_PNG, RDF_PNG>>

----------------------------------------------------------------------------
\* rises with every statement of main: twice the stages entered, plus one at the end
Progress == 2 * Len(ran) + (IF pc = "done" THEN 1 ELSE 0)

\* C10: every run of main goes on to its end: each step takes main further,
\* no position short of "done" is without a next statement, and a raised
\* exception is always on its way to main's handler or handled; the success
\* message is printed exactly when all three output files were written, and
\* never together with main's error message.
C10_SuccessIffAllOutputs ==
    /\ [][Progress' > Progress]_vars
    /\ [](/\ Progress <= 2 * Len(ORDER) + 1
          /\ pc = "done" \/ pc = "except" \/ (Len(ran) < Len(ORDER) /\ pc = ORDER[Len(ran) + 1])
          /\ Failed => pc \in {"except", "done"}
          /\ pc = "done" => (Said(SUCCESS) <=> files = OUTPUTS)
          /\ pc = "done" => (Failed <=> Said(MainError(exc)))
          /\ ~(Said(SUCCESS) /\ \E i \in 1..Len(out) : out[i][1] = MainError(exc)[1])
          /\ Said(SUCCESS) => pc = "done")

C10_Witness == pc = "done" /\ Said(SUCCESS) /\ files = OUTPUTS /\ N = MaxRows

====
